---- MODULE Spec2Model ----
(***************************************************************************)
(* Model of engine.py (Triangle Splatting viewer): the .off mesh parser     *)
(* load_custom_off, the first-person Camera, and the start-up / frame loop  *)
(* of main.                                                                 *)
(*                                                                          *)
(* Numbers.  Text fields of the mesh file are tokens: an integer literal,   *)
(* a decimal literal or a word that is no number.  Parsed floats are kept   *)
(* in halves (the value 1.5 is 3), all of which float32 holds exactly, so   *)
(* the float32 conversion of np.array changes no value of the model; a      *)
(* colour component x / 255.0 is the reduced fraction <<num, den>>.         *)
(* Camera angles are in tenths of a degree, lengths in thousandths of a     *)
(* unit, times in milliseconds.                                             *)
(***************************************************************************)
EXTENDS Integers, Sequences, FiniteSets, TLC

VARIABLES
    file,               \* the text of room.off on disk
    progress_callback,  \* whether load_custom_off was given a callback
    pc,                 \* position of the control thread
    num_vertices, num_faces,
    vertex_positions,   \* the lookup table built from the vertex lines
    final_vertices, final_colors,
    i,                  \* number of face iterations begun
    progress,           \* the invocations of the progress callback
    vertices, colors,   \* what load_custom_off returned
    display,            \* "none", "2d", "opengl", "closed"
    shader_program, VAO, VBO_vertices, VBO_colors,
    camera,
    running, delta_time, keys, mouse_rel,
    view_uniform,       \* the view transform last sent to the shader
    frames, inputs, draws, \* iterations begun, process_input calls, draw calls
    cleaned             \* the cleanup block has run

parser_vars == <<num_vertices, num_faces, vertex_positions, final_vertices,
                 final_colors, i, progress, vertices, colors>>
device_vars == <<display, shader_program, VAO, VBO_vertices, VBO_colors>>
loop_vars == <<camera, running, delta_time, keys, mouse_rel, view_uniform,
               frames, inputs, draws, cleaned>>
vars == <<file, progress_callback, pc, parser_vars, device_vars, loop_vars>>

----------------------------------------------------------------------------
(* Bounds of the model *)

MaxV == 2          \* vertex lines of a small file
MaxF == 2          \* face lines of a small file
MaxStrides == 1    \* a long file has up to MaxStrides * 15000 + 2 faces
MaxCalls == 2      \* process_input calls explored from a fresh camera
MaxFrames == 2     \* iterations of the main loop explored

----------------------------------------------------------------------------
(* Tokens and lines of the mesh file *)

I(n) == [k |-> "int", v |-> n]
D(h) == [k |-> "dec", v |-> h]      \* the decimal literal h / 2
X == [k |-> "bad", v |-> 0]         \* a field that is no number

\* int(s): only an integer literal parses.
ParseInt(tok) == [ok |-> tok.k = "int", v |-> tok.v]

\* float(s): integer and decimal literals parse; the value is in halves.
ParseFloat(tok) ==
    [ok |-> tok.k \in {"int", "dec"},
     v |-> IF tok.k = "int" THEN 2 * tok.v ELSE tok.v]

RECURSIVE GCD(_, _)
GCD(a, b) == IF b = 0 THEN a ELSE GCD(b, a % b)

\* The fraction num / den in lowest terms (den > 0, num >= 0).
Frac(num, den) ==
    LET g == GCD(num, den) IN <<num \div g, den \div g>>

\* float(s) / 255.0 for a parsed value h (in halves).
ColorComponent(h) == Frac(h, 2 * 255)

\* needle in hay, for strings as sequences of characters.
Contains(hay, needle) ==
    \E s \in 0..(Len(hay) - Len(needle)) :
        \A j \in 1..Len(needle) : hay[s + j] = needle[j]

RECURSIVE NumLines(_)
NumLines(runs) ==
    IF runs = <<>> THEN 0 ELSE Head(runs).n + NumLines(Tail(runs))

RECURSIVE RunAt(_, _)
RunAt(runs, k) ==
    IF k < Head(runs).n THEN Head(runs).line
    ELSE RunAt(Tail(runs), k - Head(runs).n)

\* lines[k] for k >= 1: line 0 is the header, the rest is the body, kept
\* as runs of equal lines.
HasLine(f, k) == k - 1 < NumLines(f.body)
LineAt(f, k) == RunAt(f.body, k - 1)

\* Python's seq[idx]: a negative idx counts from the end.
PyIndexOk(seq, idx) == -Len(seq) <= idx /\ idx < Len(seq)
PyIndex(seq, idx) ==
    IF idx >= 0 THEN seq[idx + 1] ELSE seq[Len(seq) + idx + 1]

None == [none |-> TRUE, data |-> <<>>]
Array(rows) == [none |-> FALSE, data |-> rows]

\* np.array(rows, dtype=np.float32) raises on rows of unequal length.
NpArrayOk(rows) == \A a, b \in 1..Len(rows) : Len(rows[a]) = Len(rows[b])

PROGRESS_STRIDE == 15000

----------------------------------------------------------------------------
(* load_custom_off *)

\* The except clause: log, return (None, None).
LoadFail ==
    /\ vertices' = None
    /\ colors' = None
    /\ pc' = "loaded"

\* open(filepath) and f.readlines().
LoadOpen ==
    /\ pc = "load_open"
    /\ \/ /\ file.kind = "missing"
          /\ LoadFail
       \/ /\ file.kind # "missing"
          /\ pc' = "load_header"
          /\ UNCHANGED <<vertices, colors>>
    /\ UNCHANGED <<file, progress_callback, num_vertices, num_faces,
                   vertex_positions, final_vertices, final_colors, i,
                   progress, device_vars, loop_vars>>

HeaderOk(f) ==
    /\ f.kind = "text"
    /\ ~ (/\ ~ Contains(f.header, <<"C", "O", "F", "F">>)
          /\ ~ Contains(f.header, <<"O", "F", "F">>))

CountsOk(f) ==
    /\ HasLine(f, 1)
    /\ \A t \in 1..Len(LineAt(f, 1)) : ParseInt(LineAt(f, 1)[t]).ok
    /\ Len(LineAt(f, 1)) >= 2

\* The header test and the counts line.
LoadHeader ==
    /\ pc = "load_header"
    /\ \/ /\ ~ (HeaderOk(file) /\ CountsOk(file))
          /\ LoadFail
          /\ UNCHANGED <<num_vertices, num_faces>>
       \/ /\ HeaderOk(file) /\ CountsOk(file)
          /\ num_vertices' = LineAt(file, 1)[1].v
          /\ num_faces' = LineAt(file, 1)[2].v
          /\ pc' = "load_vertices"
          /\ UNCHANGED <<vertices, colors>>
    /\ UNCHANGED <<file, progress_callback, vertex_positions, final_vertices,
                   final_colors, i, progress, device_vars, loop_vars>>

VertexLineOk(f, n) ==
    /\ HasLine(f, n)
    /\ \A t \in 1..Len(LineAt(f, n)) : ParseFloat(LineAt(f, n)[t]).ok

VertexRow(line) == [t \in 1..Len(line) |-> ParseFloat(line[t]).v]

\* One iteration of the vertex loop; the loop's exit resets the outputs.
LoadVertex ==
    /\ pc = "load_vertices"
    /\ LET n == Len(vertex_positions) IN
       \/ /\ n < num_vertices
          /\ ~ VertexLineOk(file, 2 + n)
          /\ LoadFail
          /\ UNCHANGED <<vertex_positions, final_vertices, final_colors>>
       \/ /\ n < num_vertices
          /\ VertexLineOk(file, 2 + n)
          /\ vertex_positions' =
                 Append(vertex_positions, VertexRow(LineAt(file, 2 + n)))
          /\ UNCHANGED <<pc, vertices, colors, final_vertices, final_colors>>
       \/ /\ n >= num_vertices
          /\ final_vertices' = <<>>
          /\ final_colors' = <<>>
          /\ pc' = "load_faces"
          /\ UNCHANGED <<vertex_positions, vertices, colors>>
    /\ UNCHANGED <<file, progress_callback, num_vertices, num_faces, i,
                   progress, device_vars, loop_vars>>

\* Mutation: the unconditional report of the last face is dropped.
ProgressAfter_NoFinal(n) ==
    IF progress_callback /\ n % PROGRESS_STRIDE = 0
    THEN Append(progress, [face |-> n, num |-> n + 1, den |-> num_faces])
    ELSE progress

\* The callback invocation at the head of face iteration n, if any.
ProgressAfter(n) ==
    IF progress_callback /\ (n % PROGRESS_STRIDE = 0 \/ n = num_faces - 1)
    THEN Append(progress, [face |-> n, num |-> n + 1, den |-> num_faces])
    ELSE progress

FieldsInt(parts, from, to) ==
    /\ Len(parts) >= to
    /\ \A t \in from..to : ParseInt(parts[t]).ok

FieldsFloat(parts, from, to) ==
    /\ Len(parts) >= to
    /\ \A t \in from..to : ParseFloat(parts[t]).ok

FaceCountOk(parts) == FieldsInt(parts, 1, 1)
\* Mutation: every count of 3 or more is taken for a triangle.
FaceIsTriangle_AtLeast3(parts) == parts[1].v >= 3

FaceIsTriangle(parts) == parts[1].v = 3

\* A triangular record parses and all three indices find a table entry.
FaceOk(parts, table) ==
    /\ FieldsInt(parts, 2, 4)
    /\ FieldsFloat(parts, 5, 7)
    /\ \A t \in 2..4 : PyIndexOk(table, parts[t].v)

FaceVertices(parts, table) ==
    <<PyIndex(table, parts[2].v), PyIndex(table, parts[3].v),
      PyIndex(table, parts[4].v)>>

FaceColor(parts) ==
    <<ColorComponent(ParseFloat(parts[5]).v),
      ColorComponent(ParseFloat(parts[6]).v),
      ColorComponent(ParseFloat(parts[7]).v)>>

\* One iteration of the face loop.
LoadFace ==
    /\ pc = "load_faces"
    /\ i < num_faces
    /\ i' = i + 1
    /\ progress' = ProgressAfter(i)
    /\ LET n == 2 + num_vertices + i IN
       \/ /\ \/ ~ HasLine(file, n)
             \/ /\ HasLine(file, n)
                /\ ~ FaceCountOk(LineAt(file, n))
          /\ LoadFail
          /\ UNCHANGED <<final_vertices, final_colors>>
       \/ /\ HasLine(file, n)
          /\ FaceCountOk(LineAt(file, n))
          /\ ~ FaceIsTriangle(LineAt(file, n))
          /\ UNCHANGED <<pc, vertices, colors, final_vertices, final_colors>>
       \/ /\ HasLine(file, n)
          /\ FaceCountOk(LineAt(file, n))
          /\ FaceIsTriangle(LineAt(file, n))
          /\ ~ FaceOk(LineAt(file, n), vertex_positions)
          /\ LoadFail
          /\ UNCHANGED <<final_vertices, final_colors>>
       \/ /\ HasLine(file, n)
          /\ FaceCountOk(LineAt(file, n))
          /\ FaceIsTriangle(LineAt(file, n))
          /\ FaceOk(LineAt(file, n), vertex_positions)
          /\ final_vertices' = final_vertices \o
                 FaceVertices(LineAt(file, n), vertex_positions)
          /\ final_colors' = final_colors \o
                 LET color == FaceColor(LineAt(file, n))
                 IN <<color, color, color>>
          /\ UNCHANGED <<pc, vertices, colors>>
    /\ UNCHANGED <<file, progress_callback, num_vertices, num_faces,
                   vertex_positions, device_vars, loop_vars>>

\* The two np.array conversions and the return.
LoadFinish ==
    /\ pc = "load_faces"
    /\ i >= num_faces
    /\ \/ /\ ~ NpArrayOk(final_vertices)
          /\ LoadFail
       \/ /\ NpArrayOk(final_vertices)
          /\ vertices' = Array(final_vertices)
          /\ colors' = Array(final_colors)
          /\ pc' = "loaded"
    /\ UNCHANGED <<file, progress_callback, num_vertices, num_faces,
                   vertex_positions, final_vertices, final_colors, i,
                   progress, device_vars, loop_vars>>

load_custom_off == LoadOpen \/ LoadHeader \/ LoadVertex \/ LoadFace \/ LoadFinish

----------------------------------------------------------------------------
(* The mesh files explored *)

Chars(w) ==
    CASE w = "OFF" -> <<"O", "F", "F">>
      [] w = "COFF" -> <<"C", "O", "F", "F">>
      [] w = "PLY" -> <<"p", "l", "y">>

Run(line) == [line |-> line, n |-> 1]

\* Vertex line j of a well-formed table: "j j+1 j.5".
GoodVertex(j) == <<I(j), I(j + 1), D(2 * j + 1)>>
ShortVertex == <<I(7), I(8)>>
BadVertex == <<I(1), X, I(3)>>

VertexLines(j) == {GoodVertex(j), ShortVertex, BadVertex}

Tri(a, b, c, r, g, bl) == <<I(3), I(a), I(b), I(c), I(r), I(g), I(bl)>>
Quad == <<I(4), I(0), I(1), I(2), I(3), I(0), I(255), I(0)>>

FaceLines ==
    { Tri(0, 0, 0, 255, 0, 0),
      Tri(1, 0, 1, 51, 102, 255),
      Tri(0, -1, 0, 255, 255, 255),
      Tri(0, MaxV, 0, 0, 0, 0),
      Tri(-(MaxV + 1), 0, 0, 0, 0, 0),
      Quad,
      <<I(4), X>>,
      <<I(3), I(0), I(0)>>,
      <<>>,
      <<X, I(0), I(0), I(0), I(0), I(0), I(0)>>,
      <<I(3), I(0), I(0), I(0), I(255), X, I(0)>>,
      <<I(3), I(0), D(0), I(0), D(255), I(0), I(255)>> }

SeqsUpTo(S, n) == UNION { [1..m -> S] : m \in 0..n }

VertexTables ==
    UNION { { t \in [1..m -> UNION { VertexLines(j) : j \in 0..MaxV }] :
                \A j \in 1..m : t[j] \in VertexLines(j - 1) } : m \in 0..MaxV }

RunsOf(ls) == [j \in 1..Len(ls) |-> Run(ls[j])]

TextFile(header, counts, vs, fs) ==
    [kind |-> "text", header |-> Chars(header),
     body |-> <<Run(counts)>> \o RunsOf(vs) \o RunsOf(fs)]

\* Files whose declared counts are the numbers of lines they hold.
SmallFiles ==
    { TextFile("OFF", <<I(Len(vs)), I(Len(fs))>>, vs, fs) :
          vs \in VertexTables, fs \in SeqsUpTo(FaceLines, MaxF) }

GoodTableFiles ==
    { TextFile("OFF", <<I(m), I(Len(fs))>>, [j \in 1..m |-> GoodVertex(j - 1)], fs) :
          m \in 0..MaxV, fs \in SeqsUpTo(FaceLines, MaxF) }

\* Other headers, other counts lines, files cut short.
OddFiles ==
    LET vs == <<GoodVertex(0)>>
        fs == <<Tri(0, 0, 0, 255, 0, 0)>>
    IN { [kind |-> "missing", header |-> <<>>, body |-> <<>>],
         [kind |-> "empty", header |-> <<>>, body |-> <<>>],
         [kind |-> "text", header |-> Chars("OFF"), body |-> <<>>],
         TextFile("COFF", <<I(1), I(1)>>, vs, fs),
         TextFile("PLY", <<I(1), I(1)>>, vs, fs),
         TextFile("OFF", <<I(1), I(1), I(0)>>, vs, fs),
         TextFile("OFF", <<I(1)>>, vs, fs),
         TextFile("OFF", <<I(1), X>>, vs, fs),
         TextFile("OFF", <<I(1), I(2)>>, vs, fs),
         TextFile("OFF", <<I(2), I(0)>>, vs, <<>>),
         TextFile("OFF", <<I(0), I(1)>>, vs, fs) }

\* A file of nf >= 2 faces: a first face, quads, a last face.
LongFile(nf, first, last) ==
    [kind |-> "text", header |-> Chars("OFF"),
     body |-> <<Run(<<I(1), I(nf)>>), Run(GoodVertex(0)), Run(first),
                [line |-> Quad, n |-> nf - 2], Run(last)>>]

LongFiles ==
    { LongFile(s * PROGRESS_STRIDE + d, Tri(0, 0, 0, 255, 0, 0), last) :
          s \in 1..MaxStrides, d \in 0..2,
          last \in { Tri(0, 0, 0, 0, 0, 255), Quad, <<X>> } }

----------------------------------------------------------------------------
(* load_custom_off called on its own *)

NoCamera == [position |-> <<0, 0, 0>>, yaw |-> 0, pitch |-> 0, speed |-> 0,
             mouse_sensitivity |-> 0]
NoView == [eye |-> <<0, 0, 0>>, center |-> <<0, 0, 0>>, up |-> <<0, 0, 0>>]

ParserIdle ==
    /\ num_vertices = 0 /\ num_faces = 0
    /\ vertex_positions = <<>>
    /\ final_vertices = <<>> /\ final_colors = <<>>
    /\ i = 0
    /\ progress = <<>>
    /\ vertices = None /\ colors = None

DeviceIdle ==
    /\ display = "none"
    /\ shader_program = FALSE
    /\ VAO = FALSE
    /\ VBO_vertices = None /\ VBO_colors = None

LoopIdle ==
    /\ camera = NoCamera
    /\ running = FALSE
    /\ delta_time = 0
    /\ keys = {}
    /\ mouse_rel = <<0, 0>>
    /\ view_uniform = NoView
    /\ frames = 0 /\ inputs = 0 /\ draws = 0
    /\ cleaned = FALSE

\* The call is made with a callback on every file, and without one on the
\* odd files and on the small files whose vertex lines are all good.
InitParse ==
    /\ \/ /\ file \in SmallFiles \cup OddFiles \cup LongFiles
          /\ progress_callback = TRUE
       \/ /\ file \in OddFiles \cup GoodTableFiles
          /\ progress_callback = FALSE
    /\ pc = "load_open"
    /\ ParserIdle /\ DeviceIdle /\ LoopIdle

SpecParse == InitParse /\ [][load_custom_off]_vars

----------------------------------------------------------------------------
(* Camera *)

Vec(x, y, z) == <<x, y, z>>
VAdd(a, b) == <<a[1] + b[1], a[2] + b[2], a[3] + b[3]>>
VSub(a, b) == <<a[1] - b[1], a[2] - b[2], a[3] - b[3]>>
Dot(a, b) == a[1] * b[1] + a[2] * b[2] + a[3] * b[3]

\* Unit vectors carry the scale 1000.
WORLD_UP == Vec(0, 1000, 0)

RECURSIVE ISqrtIn(_, _, _)
ISqrtIn(n, lo, hi) ==
    IF lo >= hi THEN lo
    ELSE LET mid == (lo + hi + 1) \div 2
         IN IF mid * mid <= n THEN ISqrtIn(n, mid, hi)
            ELSE ISqrtIn(n, lo, mid - 1)

ISqrt(n) == ISqrtIn(n, 0, IF n < 4000 THEN n ELSE 4000)

\* glm.normalize, to the scale 1000.
Normalize(v) ==
    LET len == ISqrt(Dot(v, v))
    IN <<(v[1] * 1000) \div len, (v[2] * 1000) \div len, (v[3] * 1000) \div len>>

\* glm.cross of two vectors of scale 1000.
Cross(a, b) ==
    <<(a[2] * b[3] - a[3] * b[2]) \div 1000,
      (a[3] * b[1] - a[1] * b[3]) \div 1000,
      (a[1] * b[2] - a[2] * b[1]) \div 1000>>

\* glm.sin(glm.radians(a)) for a in tenths of a degree, to the scale 1000
\* (Bhaskara's rational approximation on each half turn).
HalfTurnSin(x) ==
    (40 * x * (1800 - x)) \div ((4050000 - x * (1800 - x)) \div 100)

Sin(a) ==
    LET m == a % 3600
    IN IF m <= 1800 THEN HalfTurnSin(m) ELSE -HalfTurnSin(m - 1800)

Cos(a) == Sin(a + 900)

Max(a, b) == IF a >= b THEN a ELSE b
Min(a, b) == IF a <= b THEN a ELSE b

PITCH_LIMIT == 890

\* Camera.__init__ with its default arguments.
Camera ==
    [position |-> Vec(0, 2000, 20000), yaw |-> -900, pitch |-> 0,
     speed |-> 5, mouse_sensitivity |-> 1]

get_forward_vector(self) ==
    Normalize(<<(Cos(self.yaw) * Cos(self.pitch)) \div 1000,
                Sin(self.pitch),
                (Sin(self.yaw) * Cos(self.pitch)) \div 1000>>)

\* glm.lookAt(eye, center, up), kept as its three arguments.
get_view_matrix(self) ==
    [eye |-> self.position,
     center |-> VAdd(self.position, get_forward_vector(self)),
     up |-> WORLD_UP]

\* v * velocity, in thousandths of a unit.
Scaled(v, velocity) ==
    <<(v[1] * velocity) \div 1000, (v[2] * velocity) \div 1000,
      (v[3] * velocity) \div 1000>>

\* Mutation: only the upper limit is applied.
ClampPitch_UpperOnly(p) == Min(PITCH_LIMIT, p)

ClampPitch(p) == Max(-PITCH_LIMIT, Min(PITCH_LIMIT, p))

\* Mutation: the elapsed time is left out (a full second is assumed).
Velocity_IgnoresDt(self, dt) == self.speed * 1000

Velocity(self, dt) == self.speed * dt

process_input(self, ks, rel, dt) ==
    LET turned == [self EXCEPT
                     !.yaw = @ + rel[1] * self.mouse_sensitivity,
                     !.pitch = ClampPitch(@ - rel[2] * self.mouse_sensitivity)]
        velocity == Velocity(self, dt)
        forward == get_forward_vector(turned)
        right == Normalize(Cross(forward, WORLD_UP))
        up == WORLD_UP
        p0 == turned.position
        p1 == IF "K_w" \in ks THEN VAdd(p0, Scaled(forward, velocity)) ELSE p0
        p2 == IF "K_s" \in ks THEN VSub(p1, Scaled(forward, velocity)) ELSE p1
        p3 == IF "K_a" \in ks THEN VSub(p2, Scaled(right, velocity)) ELSE p2
        p4 == IF "K_d" \in ks THEN VAdd(p3, Scaled(right, velocity)) ELSE p3
        p5 == IF "K_SPACE" \in ks THEN VAdd(p4, Scaled(up, velocity)) ELSE p4
        p6 == IF "K_LCTRL" \in ks \/ "K_LSHIFT" \in ks
              THEN VSub(p5, Scaled(up, velocity)) ELSE p5
    IN [turned EXCEPT !.position = p6]

----------------------------------------------------------------------------
(* process_input called on a fresh camera *)

CallKeys ==
    { {}, {"K_w"}, {"K_s", "K_d"}, {"K_a", "K_SPACE"}, {"K_LCTRL"},
      {"K_LSHIFT", "K_w", "K_s"} }
CallMouseRels == { <<0, 0>>, <<3000, -1000>>, <<-3000, 2000>>, <<7, 5>> }
CallDeltaTimes == { 0, 16, 250 }

InitCamera ==
    /\ file = [kind |-> "missing", header |-> <<>>, body |-> <<>>]
    /\ progress_callback = FALSE
    /\ pc = "camera"
    /\ ParserIdle /\ DeviceIdle
    /\ camera = Camera
    /\ running = FALSE
    /\ delta_time = 0
    /\ keys = {}
    /\ mouse_rel = <<0, 0>>
    /\ view_uniform = NoView
    /\ frames = 0 /\ inputs = 0 /\ draws = 0
    /\ cleaned = FALSE

CallProcessInput ==
    /\ pc = "camera"
    /\ inputs < MaxCalls
    /\ \E ks \in CallKeys, rel \in CallMouseRels, dt \in CallDeltaTimes :
          /\ keys' = ks
          /\ mouse_rel' = rel
          /\ delta_time' = dt
          /\ camera' = process_input(camera, ks, rel, dt)
    /\ inputs' = inputs + 1
    /\ UNCHANGED <<file, progress_callback, pc, parser_vars, device_vars,
                   running, view_uniform, frames, draws, cleaned>>

SpecCamera == InitCamera /\ [][CallProcessInput]_vars

----------------------------------------------------------------------------
(* main *)

\* pygame.init, the 2D window, draw_loading_screen(0, ...), then the call
\* of load_custom_off("room.off", draw_loading_screen).
MainStart ==
    /\ pc = "main_start"
    /\ display' = "2d"
    /\ progress' = <<[face |-> -1, num |-> 0, den |-> 1]>>
    /\ pc' = "load_open"
    /\ UNCHANGED <<file, progress_callback, num_vertices, num_faces,
                   vertex_positions, final_vertices, final_colors, i,
                   vertices, colors, shader_program, VAO, VBO_vertices,
                   VBO_colors, loop_vars>>

\* Mutation: the result of the load is not looked at.
MainCheckLoad_NoReturn ==
    /\ pc = "loaded"
    /\ pc' = "setup_3d"
    /\ UNCHANGED <<file, progress_callback, parser_vars, device_vars, loop_vars>>

\* if vertices is None: pygame.quit(); return
MainCheckLoad ==
    /\ pc = "loaded"
    /\ \/ /\ vertices.none
          /\ display' = "closed"
          /\ pc' = "done"
       \/ /\ ~ vertices.none
          /\ pc' = "setup_3d"
          /\ UNCHANGED display
    /\ UNCHANGED <<file, progress_callback, parser_vars, shader_program, VAO,
                   VBO_vertices, VBO_colors, loop_vars>>

\* set_mode(..., DOUBLEBUF | OPENGL), glEnable, glClearColor.
Setup3D ==
    /\ pc = "setup_3d"
    /\ display' = "opengl"
    /\ pc' = "create_shader"
    /\ UNCHANGED <<file, progress_callback, parser_vars, shader_program, VAO,
                   VBO_vertices, VBO_colors, loop_vars>>

\* create_shader_program: the driver accepts the shaders, or a compile or
\* link failure raises RuntimeError, which nothing catches.
CreateShader ==
    /\ pc = "create_shader"
    /\ \/ /\ shader_program' = TRUE
          /\ pc' = "upload"
       \/ /\ pc' = "crashed"
          /\ UNCHANGED shader_program
    /\ UNCHANGED <<file, progress_callback, parser_vars, display, VAO,
                   VBO_vertices, VBO_colors, loop_vars>>

\* The vertex array and the two static vertex buffers.
UploadBuffers ==
    /\ pc = "upload"
    /\ VAO' = TRUE
    /\ VBO_vertices' = vertices
    /\ VBO_colors' = colors
    /\ pc' = "engine_setup"
    /\ UNCHANGED <<file, progress_callback, parser_vars, display,
                   shader_program, loop_vars>>

\* camera = Camera(), the clock, the fixed uniforms, running = True.
EngineSetup ==
    /\ pc = "engine_setup"
    /\ camera' = Camera
    /\ running' = TRUE
    /\ pc' = "loop_top"
    /\ UNCHANGED <<file, progress_callback, parser_vars, device_vars,
                   delta_time, keys, mouse_rel, view_uniform, frames, inputs,
                   draws, cleaned>>

Ticks == { 16, 250 }

\* while running: and delta_time = clock.tick(60) / 1000.0
LoopTop ==
    /\ pc = "loop_top"
    /\ \/ /\ running
          /\ frames < MaxFrames
          /\ frames' = frames + 1
          /\ delta_time' \in Ticks
          /\ pc' = "events"
       \/ /\ ~ running
          /\ pc' = "cleanup"
          /\ UNCHANGED <<frames, delta_time>>
    /\ UNCHANGED <<file, progress_callback, parser_vars, device_vars, camera,
                   running, keys, mouse_rel, view_uniform, inputs, draws,
                   cleaned>>

EventTypes == { "QUIT", "KEYDOWN_ESCAPE", "KEYDOWN_w", "MOUSEMOTION" }
MaxEvents == 2

IsExit(event) == event = "QUIT" \/ event = "KEYDOWN_ESCAPE"

\* Mutation: an exit event leaves the loop at once.
Events_Break ==
    /\ pc = "events"
    /\ \E events \in SeqsUpTo(EventTypes, MaxEvents) :
          IF \E e \in 1..Len(events) : IsExit(events[e])
          THEN running' = FALSE /\ pc' = "cleanup"
          ELSE running' = running /\ pc' = "input"
    /\ UNCHANGED <<file, progress_callback, parser_vars, device_vars, camera,
                   delta_time, keys, mouse_rel, view_uniform, frames, inputs,
                   draws, cleaned>>

\* for event in pygame.event.get(): ... running = False
Events ==
    /\ pc = "events"
    /\ \E events \in SeqsUpTo(EventTypes, MaxEvents) :
          running' = IF \E e \in 1..Len(events) : IsExit(events[e])
                     THEN FALSE ELSE running
    /\ pc' = "input"
    /\ UNCHANGED <<file, progress_callback, parser_vars, device_vars, camera,
                   delta_time, keys, mouse_rel, view_uniform, frames, inputs,
                   draws, cleaned>>

FrameKeys == { {}, {"K_w", "K_d"}, {"K_LSHIFT"} }
FrameMouseRels == { <<0, 0>>, <<40, -25>>, <<-3000, 2000>> }

\* get_pressed, get_rel, camera.process_input(keys, mouse_rel, delta_time)
Input ==
    /\ pc = "input"
    /\ \E ks \in FrameKeys, rel \in FrameMouseRels :
          /\ keys' = ks
          /\ mouse_rel' = rel
          /\ camera' = process_input(camera, ks, rel, delta_time)
    /\ inputs' = inputs + 1
    /\ pc' = "draw"
    /\ UNCHANGED <<file, progress_callback, parser_vars, device_vars, running,
                   delta_time, view_uniform, frames, draws, cleaned>>

\* Mutation: the view transform of the first frame is kept.
Draw_CachedView ==
    /\ pc = "draw"
    /\ view_uniform' = IF draws = 0 THEN get_view_matrix(camera) ELSE view_uniform
    /\ draws' = draws + 1
    /\ pc' = "loop_top"
    /\ UNCHANGED <<file, progress_callback, parser_vars, device_vars, camera,
                   running, delta_time, keys, mouse_rel, frames, inputs,
                   cleaned>>

\* glClear, the view uniform, glDrawArrays, flip.
Draw ==
    /\ pc = "draw"
    /\ view_uniform' = get_view_matrix(camera)
    /\ draws' = draws + 1
    /\ pc' = "loop_top"
    /\ UNCHANGED <<file, progress_callback, parser_vars, device_vars, camera,
                   running, delta_time, keys, mouse_rel, frames, inputs,
                   cleaned>>

\* glDelete*, pygame.quit.
Cleanup ==
    /\ pc = "cleanup"
    /\ VAO' = FALSE
    /\ VBO_vertices' = None
    /\ VBO_colors' = None
    /\ shader_program' = FALSE
    /\ display' = "closed"
    /\ cleaned' = TRUE
    /\ pc' = "done"
    /\ UNCHANGED <<file, progress_callback, parser_vars, camera, running,
                   delta_time, keys, mouse_rel, view_uniform, frames, inputs,
                   draws>>

\* The room.off files main is run on.
MainFiles ==
    LET g0 == GoodVertex(0)
        g1 == GoodVertex(1)
        t0 == Tri(0, 0, 0, 255, 0, 0)
        t1 == Tri(1, 0, 1, 51, 102, 255)
    IN { TextFile("OFF", <<I(2), I(2)>>, <<g0, g1>>, <<t1, Quad>>),
         TextFile("COFF", <<I(1), I(1)>>, <<g0>>, <<Tri(0, -1, 0, 255, 255, 255)>>),
         TextFile("OFF", <<I(2), I(1)>>, <<g0, ShortVertex>>, <<t1>>),
         TextFile("OFF", <<I(1), I(1)>>, <<BadVertex>>, <<t0>>),
         TextFile("OFF", <<I(1), I(1)>>, <<g0>>, <<Tri(0, MaxV, 0, 0, 0, 0)>>),
         TextFile("OFF", <<I(1), I(1)>>, <<g0>>, << <<X>> >>),
         TextFile("OFF", <<I(1), I(2)>>, <<g0>>, <<t0>>),
         TextFile("PLY", <<I(1), I(1)>>, <<g0>>, <<t0>>),
         [kind |-> "missing", header |-> <<>>, body |-> <<>>] }

Init ==
    /\ file \in MainFiles
    /\ progress_callback = TRUE
    /\ pc = "main_start"
    /\ ParserIdle /\ DeviceIdle /\ LoopIdle

Next ==
    \/ MainStart
    \/ load_custom_off
    \/ MainCheckLoad
    \/ Setup3D
    \/ CreateShader
    \/ UploadBuffers
    \/ EngineSetup
    \/ LoopTop
    \/ Events
    \/ Input
    \/ Draw
    \/ Cleanup

Spec == Init /\ [][Next]_vars

----------------------------------------------------------------------------
(* What a mesh file says, read off its text *)

IsInteger(tok) == tok.k = "int"
IsNumber(tok) == tok.k = "int" \/ tok.k = "dec"
Value(tok) == IF tok.k = "int" THEN 2 * tok.v ELSE tok.v

\* The header and the counts line are readable.
Readable(f) ==
    /\ f.kind = "text"
    /\ f.header \in {Chars("OFF"), Chars("COFF")}
    /\ NumLines(f.body) >= 1
    /\ Len(RunAt(f.body, 0)) >= 2
    /\ \A t \in 1..Len(RunAt(f.body, 0)) : IsInteger(RunAt(f.body, 0)[t])
    /\ RunAt(f.body, 0)[1].v >= 0
    /\ RunAt(f.body, 0)[2].v >= 0

DeclV(f) == RunAt(f.body, 0)[1].v
DeclF(f) == RunAt(f.body, 0)[2].v

HasVertexLine(f, j) == 1 + j < NumLines(f.body)
VertexLine(f, j) == RunAt(f.body, 1 + j)
HasFaceLine(f, j) == 1 + DeclV(f) + j < NumLines(f.body)
FaceLine(f, j) == RunAt(f.body, 1 + DeclV(f) + j)

LeadingCount3(line) ==
    Len(line) >= 1 /\ IsInteger(line[1]) /\ line[1].v = 3

VertexWellFormed(line) ==
    Len(line) = 3 /\ \A t \in 1..3 : IsNumber(line[t])

FaceWellFormed(f, line) ==
    /\ Len(line) >= 1
    /\ IsInteger(line[1])
    /\ line[1].v = 3 =>
          /\ Len(line) >= 7
          /\ \A t \in 2..4 :
                IsInteger(line[t]) /\ line[t].v >= 0 /\ line[t].v < DeclV(f)
          /\ \A t \in 5..7 : IsNumber(line[t])

WellFormed(f) ==
    /\ Readable(f)
    /\ NumLines(f.body) >= 1 + DeclV(f) + DeclF(f)
    /\ \A j \in 0..(DeclV(f) - 1) : VertexWellFormed(VertexLine(f, j))
    /\ \A j \in 0..(DeclF(f) - 1) : FaceWellFormed(f, FaceLine(f, j))

\* The face records with leading count 3, by index.
Triangles(f) ==
    { j \in 0..(DeclF(f) - 1) : HasFaceLine(f, j) /\ LeadingCount3(FaceLine(f, j)) }

\* The k-th of them, k from 0.
NthTriangle(f, k) ==
    LET T == Triangles(f)
    IN FaceLine(f, CHOOSE j \in T : Cardinality({m \in T : m < j}) = k)

\* Entry idx of the vertex table, which is indexed 0..V-1.
TableEntry(f, idx) ==
    IF 0 <= idx /\ idx < DeclV(f)
    THEN [t \in 1..Len(VertexLine(f, idx)) |-> Value(VertexLine(f, idx)[t])]
    ELSE <<>>

\* x / 255 for the colour field x.
Over255(tok) ==
    IF tok.k = "int" THEN Frac(tok.v, 255) ELSE Frac(tok.v, 510)

----------------------------------------------------------------------------
(* Claims about load_custom_off, under SpecParse *)

\* C1: on every well-formed file the parse succeeds and returns positions
\* and colors of one length, three times the number of face records whose
\* leading count is 3; the other face records add nothing and fail nothing.
C1_WellFormedLengths ==
    (pc = "loaded" /\ WellFormed(file)) =>
        /\ ~ vertices.none /\ ~ colors.none
        /\ Len(vertices.data) = Len(colors.data)
        /\ Len(vertices.data) = 3 * Cardinality(Triangles(file))

C1_Witness ==
    /\ pc = "loaded"
    /\ WellFormed(file)
    /\ DeclF(file) = 2
    /\ Cardinality(Triangles(file)) = 1
    /\ LeadingCount3(FaceLine(file, 1))
    /\ Len(vertices.data) = 3

\* Some face record with leading count 3 names an index outside [0, V).
HasOutOfRangeFace(f) ==
    /\ Readable(f)
    /\ \E j \in Triangles(f) :
          \E t \in 2..4 :
              /\ Len(FaceLine(f, j)) >= t
              /\ IsInteger(FaceLine(f, j)[t])
              /\ (FaceLine(f, j)[t].v < 0 \/ FaceLine(f, j)[t].v >= DeclV(f))

\* C2: a face record with leading count 3 and an index outside [0, V),
\* negative ones included, makes the parse return (None, None).
C2_OutOfRangeFails ==
    (pc = "loaded" /\ HasOutOfRangeFace(file)) =>
        (vertices.none /\ colors.none)

VertexMalformed(line) ==
    \/ Cardinality({t \in 1..Len(line) : IsNumber(line[t])}) < 3
    \/ \E t \in 1..Len(line) : ~ IsNumber(line[t])

FaceMalformed(line) ==
    \/ Len(line) = 0
    \/ \E t \in 1..Len(line) : ~ IsNumber(line[t])
    \/ LeadingCount3(line) /\ Len(line) < 7

HasMalformedLine(f) ==
    /\ Readable(f)
    /\ \/ \E j \in 0..(DeclV(f) - 1) :
             HasVertexLine(f, j) /\ VertexMalformed(VertexLine(f, j))
       \/ \E j \in 0..(DeclF(f) - 1) :
             HasFaceLine(f, j) /\ FaceMalformed(FaceLine(f, j))

\* C3: a structurally malformed line among the V vertex lines or the F
\* face lines makes the parse return (None, None), also when no face
\* references the vertex and when the face's leading count is not 3.
C3_MalformedFails ==
    (pc = "loaded" /\ HasMalformedLine(file)) =>
        (vertices.none /\ colors.none)

\* C4: a successful parse returns the in-order expansion of the accepted
\* faces: the k-th face record with leading count 3 gives positions
\* 3k..3k+2 = the vertex-table entries i1, i2, i3 and colors 3k..3k+2 =
\* (r/255, g/255, b/255), three times.
C4_InOrderExpansion ==
    (pc = "loaded" /\ ~ vertices.none) =>
        \A k \in 0..(Cardinality(Triangles(file)) - 1) :
            LET line == NthTriangle(file, k)
                color == <<Over255(line[5]), Over255(line[6]), Over255(line[7])>>
            IN /\ Len(vertices.data) >= 3 * k + 3
               /\ Len(colors.data) >= 3 * k + 3
               /\ \A c \in 1..3 :
                     /\ vertices.data[3 * k + c] = TableEntry(file, line[1 + c].v)
                     /\ colors.data[3 * k + c] = color

\* C8: with a callback and F >= 1, the callback has been invoked exactly
\* for the faces j begun so far with j mod 15000 = 0 or j = F - 1, in
\* increasing order, each time with the fraction (j + 1) / F, which lies
\* in [0, 1] and grows from call to call; a successful parse ends with the
\* call for the last face, fraction 1.
C8_ProgressCalls ==
    (progress_callback /\ pc \in {"load_faces", "loaded"} /\ num_faces >= 1) =>
        /\ \A c \in 1..Len(progress) :
              /\ progress[c].face >= 0 /\ progress[c].face < i
              /\ \/ progress[c].face % 15000 = 0
                 \/ progress[c].face = num_faces - 1
              /\ progress[c].num = progress[c].face + 1
              /\ progress[c].den = num_faces
              /\ 0 <= progress[c].num /\ progress[c].num <= progress[c].den
        /\ \A c \in 1..(Len(progress) - 1) :
              /\ progress[c].face < progress[c + 1].face
              /\ progress[c].num * progress[c + 1].den
                     < progress[c + 1].num * progress[c].den
        /\ \A s \in 0..((i - 1) \div 15000) :
              i >= 1 => \E c \in 1..Len(progress) : progress[c].face = s * 15000
        /\ i = num_faces =>
              \E c \in 1..Len(progress) : progress[c].face = num_faces - 1
        /\ (pc = "loaded" /\ ~ vertices.none) =>
              /\ Len(progress) >= 1
              /\ progress[Len(progress)].face = num_faces - 1
              /\ progress[Len(progress)].num = progress[Len(progress)].den

C8_Witness ==
    /\ progress_callback
    /\ pc = "loaded"
    /\ ~ vertices.none
    /\ num_faces = 15002
    /\ Len(progress) = 3
    /\ progress[2].face = 15000

----------------------------------------------------------------------------
(* Claims about Camera.process_input, under SpecCamera *)

\* C5: the pitch is within [-89, 89] degrees in every reachable state,
\* whatever the inputs of the calls made; the yaw is the plain sum of the
\* pointer deltas, neither clamped nor normalised.
C5_PitchClampedYawFree ==
    /\ [](camera.pitch >= -890 /\ camera.pitch <= 890)
    /\ [][camera'.yaw = camera.yaw + mouse_rel'[1]]_vars

C5_Witness ==
    /\ inputs >= 1
    /\ camera.pitch = 890
    /\ mouse_rel[2] = -1000
    /\ camera.yaw > 3600

\* C6: a call with pointer delta (0, 0) and elapsed time 0 leaves position,
\* yaw and pitch as they were, whatever keys are pressed.
C6_ZeroInputNoChange ==
    [][(mouse_rel' = <<0, 0>> /\ delta_time' = 0) =>
          /\ camera'.position = camera.position
          /\ camera'.yaw = camera.yaw
          /\ camera'.pitch = camera.pitch]_vars

C6_Witness ==
    /\ inputs = 2
    /\ mouse_rel = <<0, 0>>
    /\ delta_time = 0
    /\ keys = {"K_a", "K_SPACE"}
    /\ camera.position # Camera.position
    /\ camera.pitch = -890

----------------------------------------------------------------------------
(* Claims about main, under Spec *)

Loading == pc \in {"main_start", "load_open", "load_header", "load_vertices",
                   "load_faces"}
InLoop == pc \in {"loop_top", "events", "input", "draw"}

\* C7: once the load has returned (None, None), the run only quits: the
\* OpenGL display mode is never set, no shader program, vertex array or
\* vertex buffer is created, no iteration starts and nothing is drawn.
C7_FailedLoadStopsStartup ==
    (~ Loading /\ vertices.none) =>
        /\ pc \in {"loaded", "done"}
        /\ display \in {"2d", "closed"}
        /\ ~ shader_program /\ ~ VAO
        /\ VBO_vertices.none /\ VBO_colors.none
        /\ frames = 0 /\ inputs = 0 /\ draws = 0
        /\ ~ cleaned

C7_Witness ==
    /\ pc = "done"
    /\ vertices.none
    /\ display = "closed"
    /\ num_faces = 1 /\ i = 1

\* C9: the camera is written only by the process_input step, once per
\* iteration and before the draw step, which reads it for the view
\* transform it sends and leaves it alone; the buffers uploaded before the
\* loop and the arrays they came from are not written while the loop runs.
C9_FrameOrder ==
    [][/\ (camera' # camera) => (pc = "input" \/ pc = "engine_setup")
       /\ (pc = "input") =>
             /\ inputs = frames - 1 /\ inputs' = frames
             /\ draws = frames - 1
             /\ camera' = process_input(camera, keys', mouse_rel', delta_time)
             /\ pc' = "draw"
       /\ (pc = "draw") =>
             /\ inputs = frames
             /\ draws' = frames
             /\ view_uniform' = get_view_matrix(camera)
             /\ camera' = camera
       /\ (view_uniform' # view_uniform) => pc = "draw"
       /\ InLoop =>
             /\ VBO_vertices' = VBO_vertices /\ VBO_colors' = VBO_colors
             /\ VBO_vertices = vertices /\ VBO_colors = colors
             /\ vertices' = vertices /\ colors' = colors]_vars

C9_Witness ==
    /\ pc = "loop_top"
    /\ draws = 2 /\ inputs = 2 /\ frames = 2
    /\ camera.yaw # Camera.yaw
    /\ camera.position # Camera.position
    /\ view_uniform = get_view_matrix(camera)
    /\ ~ VBO_vertices.none

\* C10: an exit event only clears the running flag; the iteration that saw
\* it still processes input and draws; the flag is read at the top of the
\* next iteration, none starts once it is false, it never turns true
\* again, and the cleanup runs only after the loop has been left.
C10_CoarseCancellation ==
    [][/\ (InLoop /\ ~ running) => ~ running'
       /\ (InLoop /\ running /\ ~ running') =>
             /\ pc = "events" /\ pc' = "input"
             /\ UNCHANGED <<camera, view_uniform, frames, inputs, draws,
                            cleaned, device_vars>>
       /\ (pc = "events") => pc' = "input"
       /\ (pc = "input") => (pc' = "draw" /\ inputs' = inputs + 1)
       /\ (pc = "draw") => (pc' = "loop_top" /\ draws' = draws + 1)
       /\ (frames' # frames) => (pc = "loop_top" /\ running)
       /\ (InLoop /\ pc' = "cleanup") =>
             /\ pc = "loop_top" /\ ~ running
             /\ inputs = frames /\ draws = frames
       /\ (pc' = "cleanup") => (VAO' /\ shader_program' /\ ~ cleaned')
       /\ (cleaned' # cleaned) =>
             /\ pc = "cleanup" /\ ~ running
             /\ ~ VAO' /\ ~ shader_program'
             /\ VBO_vertices'.none /\ VBO_colors'.none
             /\ display' = "closed" /\ pc' = "done"]_vars

C10_Witness ==
    /\ pc = "done"
    /\ cleaned
    /\ ~ running
    /\ frames = 2 /\ inputs = 2 /\ draws = 2
    /\ keys = {"K_w", "K_d"}

====
